---- MODULE Spec2Model ----
(***************************************************************************)
(* Verification model of azure-invoice-sorter.                             *)
(*                                                                         *)
(*   SpecParse  PDFProcessor._parse_openai_response applied to model       *)
(*              replies built from a vendor name, a gap and a date token.  *)
(*   Spec       the reconciliation cycle of function_app.main's try block  *)
(*              (lines 208-256) with process_new_files, run by two         *)
(*              possibly overlapping invocations against one Drive folder  *)
(*              and one blob container.                                    *)
(*   SpecTimer  function_app.main as the timer trigger runs it, from its   *)
(*              first statement (line 199).                                *)
(*                                                                         *)
(* Text is modelled as a sequence of one-character strings.                *)
(***************************************************************************)
EXTENDS Integers, Sequences, FiniteSets, TLC

\* ---------------------------------------------------------------- bounds
MaxMonth == 13      \* month fields of generated date tokens: 0..MaxMonth
MaxDay == 32        \* day fields of generated date tokens: 0..MaxDay
MaxGap == 2         \* blanks between the vendor name and the date token
MaxCycles == 3      \* invocations of main over one behaviour
MaxFolders == 2     \* folders the Drive lets process_new_files create

VARIABLES
    pReply,      \* the text of response.choices[0].message.content
    pGiven,      \* how pReply was built: name, shape, month, day, year, separators
    pResult,     \* what _parse_openai_response returned, or Pending
    gpt,         \* get_vendor_from_gpt: [text, calls, failed] of its invocation
    files,       \* Drive: file id -> [st, name, parents]
    folders,     \* Drive: the folders under FOLDER_ID, in listing order, [id, name]
    vendorsBlob, \* blob known_vendors.json: [present, data]
    knownBlob,   \* blob known_files.json: [present, data], data the 'files' map
    pc,          \* per invocation: where main / process_new_files stands
    known,       \* per invocation: known_files['files'] as loaded
    current,     \* per invocation: current_files
    todo,        \* per invocation: the rest of new_file_ids, head first
    vendors,     \* per invocation: the vendors dict of process_new_files
    cur,         \* per invocation: (vendor, date) of the file being processed
    created,     \* per invocation: folders it created, [file, vendor, folder]
    moved,       \* per invocation: its move_and_rename_file calls
    failed,      \* per invocation: the files whose download or extraction gave nothing
    commits,     \* per invocation: save_known_files calls of the current cycle
    seen,        \* per invocation: the files that finished cycles had skipped when it loaded
    skipped,     \* files a finished cycle processed and left in the watched folder
    started      \* invocations of main so far

parseVars == <<pReply, pGiven, pResult, gpt>>
driveVars == <<files, folders>>
blobVars == <<vendorsBlob, knownBlob>>
localVars == <<pc, known, current, todo, vendors, cur, created, moved, failed, commits, seen>>
cycleVars == <<files, folders, vendorsBlob, knownBlob, pc, known, current, todo, vendors,
               cur, created, moved, failed, commits, seen, skipped, started>>
vars == <<pReply, pGiven, pResult, gpt, files, folders, vendorsBlob, knownBlob, pc, known,
          current, todo, vendors, cur, created, moved, failed, commits, seen, skipped,
          started>>

\* ------------------------------------------------------------ characters
None == <<"None">>
Pending == <<"Pending">>
QUOTE == "\""
Digits == <<"0", "1", "2", "3", "4", "5", "6", "7", "8", "9">>

IsSpace(ch) == ch = " "
IsDigit(ch) == \E i \in 1..10 : Digits[i] = ch
DigitVal(ch) == (CHOOSE i \in 1..10 : Digits[i] = ch) - 1
DigitChar(n) == Digits[n + 1]

RECURSIVE NumVal(_)
NumVal(s) == IF s = <<>> THEN 0
             ELSE 10 * NumVal(SubSeq(s, 1, Len(s) - 1)) + DigitVal(s[Len(s)])

AllDigits(s) == \A i \in 1..Len(s) : IsDigit(s[i])

TwoDigits(n) == <<DigitChar((n \div 10) % 10), DigitChar(n % 10)>>
FourDigits(n) == <<DigitChar((n \div 1000) % 10), DigitChar((n \div 100) % 10),
                   DigitChar((n \div 10) % 10), DigitChar(n % 10)>>
Unpadded(n) == IF n < 10 THEN <<DigitChar(n)>> ELSE TwoDigits(n)

\* str.strip(): drop leading and trailing white space
RECURSIVE strip(_)
strip(s) == IF s = <<>> THEN s
            ELSE IF IsSpace(s[1]) THEN strip(Tail(s))
            ELSE IF IsSpace(s[Len(s)]) THEN strip(SubSeq(s, 1, Len(s) - 1))
            ELSE s

\* str.strip('"'): drop leading and trailing double quotes
RECURSIVE strip_quotes(_)
strip_quotes(s) == IF s = <<>> THEN s
                   ELSE IF s[1] = QUOTE THEN strip_quotes(Tail(s))
                   ELSE IF s[Len(s)] = QUOTE THEN strip_quotes(SubSeq(s, 1, Len(s) - 1))
                   ELSE s

\* ------------------------------------------------------------- calendar
IsLeap(y) == (y % 4 = 0 /\ y % 100 # 0) \/ y % 400 = 0
DaysInMonth(m, y) == IF m \in {4, 6, 9, 11} THEN 30
                     ELSE IF m = 2 THEN (IF IsLeap(y) THEN 29 ELSE 28)
                     ELSE 31

\* --------------------------------------------- _parse_openai_response
\* date_patterns[0] = \d{1,2}[-/]\d{1,2}[-/]\d{4}, matched against the whole of tok
MatchesMDY(tok) ==
    \E a \in 1..2, b \in 1..2 :
        /\ Len(tok) = a + b + 6
        /\ AllDigits(SubSeq(tok, 1, a))
        /\ tok[a + 1] \in {"-", "/"}
        /\ AllDigits(SubSeq(tok, a + 2, a + b + 1))
        /\ tok[a + b + 2] \in {"-", "/"}
        /\ AllDigits(SubSeq(tok, a + b + 3, a + b + 6))

\* date_patterns[1] = \d{4}[-/]\d{1,2}[-/]\d{1,2}, matched against the whole of tok
MatchesYMD(tok) ==
    \E a \in 1..2, b \in 1..2 :
        /\ Len(tok) = a + b + 6
        /\ AllDigits(SubSeq(tok, 1, 4))
        /\ tok[5] \in {"-", "/"}
        /\ AllDigits(SubSeq(tok, 6, 5 + a))
        /\ tok[6 + a] \in {"-", "/"}
        /\ AllDigits(SubSeq(tok, 7 + a, 6 + a + b))

date_patterns == <<"MDY", "YMD">>
MatchesPattern(p, tok) == IF p = "MDY" THEN MatchesMDY(tok) ELSE MatchesYMD(tok)

\* s[from..to] matches  "?\s+
TailMatches(s, from, to) ==
    /\ to >= from
    /\ \/ \A i \in from..to : IsSpace(s[i])
       \/ /\ s[from] = QUOTE
          /\ to > from
          /\ \A i \in (from + 1)..to : IsSpace(s[i])

\* re.search(^\s*"?(.*?)"?\s+(pattern)\s*$, content): the start of group 2,
\* or 0 when there is no match.  content is stripped, so group 2 runs to the
\* end of content and starts right after white space.
DateStart(content, p) ==
    LET cands == {i \in 2..Len(content) :
                     /\ IsSpace(content[i - 1])
                     /\ MatchesPattern(p, SubSeq(content, i, Len(content)))}
    IN IF cands = {} THEN 0 ELSE CHOOSE i \in cands : TRUE

\* group(1): after the greedy \s*"? the lazy (.*?) takes the fewest characters
\* that leave "?\s+ up to the date token
Group1(content, i) ==
    LET lead == CHOOSE k \in 0..(i - 1) :
                    /\ \A j \in 1..k : IsSpace(content[j])
                    /\ ~IsSpace(content[k + 1])
        k == IF content[lead + 1] = QUOTE THEN lead + 1 ELSE lead
        n == CHOOSE n \in 0..(i - 1 - k) :
                 /\ TailMatches(content, k + n + 1, i - 1)
                 /\ \A m \in 0..(n - 1) : ~TailMatches(content, k + m + 1, i - 1)
    IN SubSeq(content, k + 1, k + n)

\* strptime that takes any digits for a date
strptime_lenient(date_str, sep) ==
    LET fits == {ab \in (1..2) \X (1..2) :
                    /\ Len(date_str) = ab[1] + ab[2] + 6
                    /\ date_str[ab[1] + 1] = sep
                    /\ date_str[ab[1] + ab[2] + 2] = sep}
    IN IF fits = {} THEN None
       ELSE LET ab == CHOOSE x \in fits : TRUE
            IN <<NumVal(SubSeq(date_str, 1, ab[1])),
                 NumVal(SubSeq(date_str, ab[1] + 2, ab[1] + ab[2] + 1)),
                 NumVal(SubSeq(date_str, ab[1] + ab[2] + 3, ab[1] + ab[2] + 6))>>

\* datetime.strptime(date_str, '%m<sep>%d<sep>%Y'): <<month, day, year>>, or
\* None for ValueError
strptime(date_str, sep) ==
    LET fits == {ab \in (1..2) \X (1..2) :
                    /\ Len(date_str) = ab[1] + ab[2] + 6
                    /\ AllDigits(SubSeq(date_str, 1, ab[1]))
                    /\ date_str[ab[1] + 1] = sep
                    /\ AllDigits(SubSeq(date_str, ab[1] + 2, ab[1] + ab[2] + 1))
                    /\ date_str[ab[1] + ab[2] + 2] = sep
                    /\ AllDigits(SubSeq(date_str, ab[1] + ab[2] + 3, ab[1] + ab[2] + 6))}
    IN IF fits = {} THEN None
       ELSE LET ab == CHOOSE x \in fits : TRUE
                m == NumVal(SubSeq(date_str, 1, ab[1]))
                d == NumVal(SubSeq(date_str, ab[1] + 2, ab[1] + ab[2] + 1))
                y == NumVal(SubSeq(date_str, ab[1] + ab[2] + 3, ab[1] + ab[2] + 6))
            IN IF m \in 1..12 /\ d \in 1..31 /\ y >= 1 /\ d <= DaysInMonth(m, y)
               THEN <<m, d, y>> ELSE None

\* date_obj.strftime('%m-%d-%Y')
strftime(date_obj) ==
    TwoDigits(date_obj[1]) \o <<"-">> \o TwoDigits(date_obj[2]) \o <<"-">> \o FourDigits(date_obj[3])

\* lines 174-186: the format is chosen by '/' in date_str
NormalizeDate(date_str) ==
    IF \E i \in 1..Len(date_str) : date_str[i] = "/"
    THEN strptime(date_str, "/")
    ELSE strptime(date_str, "-")

RECURSIVE TryPatterns(_, _)
TryPatterns(content, k) ==
    IF k > Len(date_patterns) THEN <<None, None>>
    ELSE LET i == DateStart(content, date_patterns[k])
         IN IF i = 0 THEN TryPatterns(content, k + 1)
            ELSE LET found_vendor == strip(strip_quotes(Group1(content, i)))
                     date_str == strip(SubSeq(content, i, Len(content)))
                     date_obj == NormalizeDate(date_str)
                 IN IF date_obj = None THEN TryPatterns(content, k + 1)
                    ELSE <<found_vendor, strftime(date_obj)>>

parse_openai_response(response) == TryPatterns(strip(response), 1)

\* =================================================== the Drive and the blobs
FOLDER_ID == <<"root", 0>>
NoFolder == <<"None", 0>>
OldFolder == <<"F", 0>>
FolderId(n) == <<"F", n>>
Empty == <<>>

FileIds == {"f1", "f2"}
Workers == {1, 2}
OrigName(f) == <<f>>

VendorA == <<"A">>

\* what the language model may answer for a document
CycleReplies == { <<"A", " ", "1", "/", "2", "/", "2", "0", "2", "4">>,
                  <<"B", " ", "0", "3", "-", "1", "5", "-", "2", "0", "2", "4">>,
                  <<"A", " ", "2", "0", "2", "4", "-", "0", "1", "-", "0", "2">> }

Perms(S) == {s \in [1..Cardinality(S) -> S] : \A i, j \in 1..Cardinality(S) : s[i] = s[j] => i = j}

Truthy(x) == x # None /\ x # <<>>

InRoot(f) == files[f].st = "live" /\ FOLDER_ID \in files[f].parents

\* files().list(q = pdf and FOLDER_ID in parents): id -> name
ListPdfFiles == [f \in {g \in FileIds : InRoot(g)} |-> files[f].name]

\* main lines 231-233
current_file_ids(cf) == DOMAIN cf
NewFilesNoDelta(cf, kf) == current_file_ids(cf)
new_files(cf, kf) == current_file_ids(cf) \ DOMAIN kf
removed_files(cf, kf) == DOMAIN kf \ current_file_ids(cf)

\* load_vendor_folders lines 105-106: {folder['name']: folder['id'] for folder in listing}
RECURSIVE FromListing(_)
FromListing(listing) ==
    IF listing = <<>> THEN Empty
    ELSE LET last == listing[Len(listing)]
         IN (last.name :> last.id) @@ FromListing(SubSeq(listing, 1, Len(listing) - 1))

\* process_new_files line 165: vendor not in vendors
NeedsFolderAlways(vs, vendor) == TRUE
NeedsFolder(vs, vendor) == vendor \notin DOMAIN vs

\* process_new_files line 176: vendors.get(vendor)
TargetOrRoot(vs, vendor) == IF vendor \in DOMAIN vs THEN vs[vendor] ELSE FOLDER_ID
target_folder(vs, vendor) == IF vendor \in DOMAIN vs THEN vs[vendor] ELSE NoFolder

\* FileOrganizer.create_new_filename
create_new_filename(vendor, date) ==
    IF ~Truthy(vendor) \/ ~Truthy(date) THEN None
    ELSE vendor \o <<" ">> \o date \o <<".", "p", "d", "f">>

FolderExists(id) == \E i \in 1..Len(folders) : folders[i].id = id

InProgress(c) == pc[c] \notin {"idle", "done", "aborted", "raised"}

NoFiles == [f \in FileIds |-> [st |-> "absent", name |-> OrigName(f), parents |-> {}]]
OneInRoot == [NoFiles EXCEPT !["f1"] = [st |-> "live", name |-> OrigName("f1"),
                                        parents |-> {FOLDER_ID}]]

\* a fresh deployment; a deployment with one vendor folder and its registry;
\* the same after the vendor folder was deleted from the Drive
InitStores ==
    /\ knownBlob = [present |-> FALSE, data |-> Empty]
    /\ \/ /\ folders = <<>>
          /\ vendorsBlob = [present |-> FALSE, data |-> Empty]
       \/ /\ folders = <<[id |-> OldFolder, name |-> VendorA]>>
          /\ vendorsBlob = [present |-> TRUE, data |-> (VendorA :> OldFolder)]
       \/ /\ folders = <<>>
          /\ vendorsBlob = [present |-> TRUE, data |-> (VendorA :> OldFolder)]

InitLocal ==
    /\ pc = [c \in Workers |-> "idle"]
    /\ known = [c \in Workers |-> Empty]
    /\ current = [c \in Workers |-> Empty]
    /\ todo = [c \in Workers |-> <<>>]
    /\ vendors = [c \in Workers |-> Empty]
    /\ cur = [c \in Workers |-> <<None, None>>]
    /\ created = [c \in Workers |-> {}]
    /\ moved = [c \in Workers |-> {}]
    /\ failed = [c \in Workers |-> {}]
    /\ commits = [c \in Workers |-> 0]
    /\ seen = [c \in Workers |-> {}]
    /\ skipped = {}
    /\ started = 0

ParseIdle ==
    /\ gpt = [text |-> "text", calls |-> 0, failed |-> FALSE]
    /\ pGiven = Empty
    /\ pReply = Empty
    /\ pResult = Pending

Init == files = NoFiles /\ InitStores /\ InitLocal /\ ParseIdle

\* ------------------------------------------------------------ environment
\* the createdTime of the Drive: file ids are numbered in the order of upload
CreatedBefore(a, b) == a = "f1" /\ b = "f2"

\* a user drops a PDF into the watched folder
Upload(f) ==
    /\ files[f].st = "absent"
    /\ \A g \in FileIds : CreatedBefore(g, f) => files[g].st # "absent"
    /\ files' = [files EXCEPT ![f] = [st |-> "live", name |-> OrigName(f), parents |-> {FOLDER_ID}]]
    /\ UNCHANGED <<folders, blobVars, localVars, skipped, started, parseVars>>

\* a user deletes a PDF
Remove(f) ==
    /\ files[f].st = "live"
    /\ files' = [files EXCEPT ![f] = [st |-> "gone", name |-> OrigName(f), parents |-> {}]]
    /\ skipped' = skipped \ {f}
    /\ UNCHANGED <<folders, blobVars, localVars, started, parseVars>>

\* ------------------------------------------------------------------ main
\* main lines 199-206 as written: datetime is the class datetime.datetime, so
\* datetime.timezone raises AttributeError before the try block of line 208
main(c) ==
    /\ ~InProgress(c)
    /\ started < MaxCycles
    /\ started' = started + 1
    /\ pc' = [pc EXCEPT ![c] = "raised"]
    /\ commits' = [commits EXCEPT ![c] = 0]
    /\ UNCHANGED <<driveVars, blobVars, known, current, todo, vendors, cur, created, moved, failed,
                   seen, skipped, parseVars>>

\* main lines 208-214: the try block is entered, load_known_files (lines 35-48)
Load(c) ==
    /\ ~InProgress(c)
    /\ started < MaxCycles
    /\ started' = started + 1
    /\ \E ok \in BOOLEAN :
          known' = [known EXCEPT ![c] = IF ok /\ knownBlob.present THEN knownBlob.data ELSE Empty]
    /\ pc' = [pc EXCEPT ![c] = "list"]
    /\ commits' = [commits EXCEPT ![c] = 0]
    /\ seen' = [seen EXCEPT ![c] = skipped]
    /\ UNCHANGED <<driveVars, blobVars, current, todo, vendors, cur, created, moved, failed,
                   skipped, parseVars>>

\* main returns: its locals are gone
Return(c) ==
    /\ known' = [known EXCEPT ![c] = Empty]
    /\ current' = [current EXCEPT ![c] = Empty]
    /\ vendors' = [vendors EXCEPT ![c] = Empty]
    /\ created' = [created EXCEPT ![c] = {}]
    /\ moved' = [moved EXCEPT ![c] = {}]
    /\ failed' = [failed EXCEPT ![c] = {}]
    /\ UNCHANGED <<todo, cur>>

\* an abort that first stores an empty ledger
AbortCycleSaving(c) ==
    /\ pc' = [pc EXCEPT ![c] = "aborted"]
    /\ Return(c)
    /\ knownBlob' = [present |-> TRUE, data |-> Empty]

\* main lines 255-256: initialize_drive_service (lines 63-85) or files().list
\* raised, the except clause logs and main returns
AbortCycle(c) ==
    /\ pc' = [pc EXCEPT ![c] = "aborted"]
    /\ Return(c)
    /\ UNCHANGED knownBlob

\* main lines 216-244: initialize_drive_service, files().list, the delta
List(c) ==
    /\ pc[c] = "list"
    /\ \/ AbortCycle(c)
       \/ LET cf == ListPdfFiles
              nf == new_files(cf, known[c])
          IN /\ current' = [current EXCEPT ![c] = cf]
             /\ IF nf = {}
                THEN /\ pc' = [pc EXCEPT ![c] = "commit"]
                     /\ UNCHANGED todo
                ELSE /\ pc' = [pc EXCEPT ![c] = "vendors"]
                     /\ \E order \in Perms(nf) : todo' = [todo EXCEPT ![c] = order]
             /\ UNCHANGED <<knownBlob, known, vendors, cur, created, moved, failed>>
    /\ UNCHANGED <<driveVars, vendorsBlob, commits, seen, skipped, started, parseVars>>

\* process_new_files line 150: load_vendor_folders (lines 88-113) with
\* save_vendor_folders (lines 116-125)
LoadVendors(c) ==
    /\ pc[c] = "vendors"
    /\ pc' = [pc EXCEPT ![c] = "extract"]
    /\ \/ /\ vendorsBlob.present                      \* lines 96-97
          /\ vendors' = [vendors EXCEPT ![c] = vendorsBlob.data]
          /\ UNCHANGED vendorsBlob
       \/ /\ vendors' = [vendors EXCEPT ![c] = Empty]  \* lines 111-113
          /\ UNCHANGED vendorsBlob
       \/ LET rebuilt == FromListing(folders)          \* lines 98-110
          IN /\ vendors' = [vendors EXCEPT ![c] = rebuilt]
             /\ \E saved \in BOOLEAN :
                   vendorsBlob' = IF saved THEN [present |-> TRUE, data |-> rebuilt]
                                  ELSE vendorsBlob
    /\ UNCHANGED <<driveVars, knownBlob, known, current, todo, cur, created, moved, failed, commits,
                   seen, skipped, started, parseVars>>

\* a loop that gives up the rest of the batch
NextFileAbortsBatch(c) ==
    /\ todo' = [todo EXCEPT ![c] = <<>>]
    /\ cur' = [cur EXCEPT ![c] = <<None, None>>]
    /\ pc' = [pc EXCEPT ![c] = "commit"]

\* the for loop moves on to the next file id, or process_new_files returns
NextFile(c) ==
    /\ todo' = [todo EXCEPT ![c] = Tail(todo[c])]
    /\ cur' = [cur EXCEPT ![c] = <<None, None>>]
    /\ pc' = [pc EXCEPT ![c] = IF Tail(todo[c]) = <<>> THEN "commit" ELSE "extract"]

\* what extract_text returns: None, '' or some text
TextKinds == {"none", "empty", "text"}

\* get_vendor_from_gpt with the guard of line 100 left out
get_vendor_unguarded(text, api_ok, reply) ==
    IF ~api_ok THEN [calls |-> 1, failed |-> TRUE, result |-> <<None, None>>]
    ELSE [calls |-> 1, failed |-> FALSE, result |-> parse_openai_response(reply)]

\* PDFProcessor.get_vendor_from_gpt: the completion calls it makes, whether the
\* call raised, and what it returns
get_vendor_from_gpt(text, api_ok, reply) ==
    IF text # "text" THEN [calls |-> 0, failed |-> FALSE, result |-> <<None, None>>]
    ELSE IF ~api_ok THEN [calls |-> 1, failed |-> TRUE, result |-> <<None, None>>]
    ELSE [calls |-> 1, failed |-> FALSE, result |-> parse_openai_response(reply)]

\* line 193, or line 190: nothing usable came out of this file
SkipFile(c) ==
    /\ failed' = [failed EXCEPT ![c] = failed[c] \cup {Head(todo[c])}]
    /\ NextFile(c)

\* process_new_files lines 152-165, 188-193: download_file, extract_text,
\* get_vendor_from_gpt
Extract(c) ==
    /\ pc[c] = "extract"
    /\ \/ SkipFile(c)                                  \* download_file raised
       \/ /\ files[Head(todo[c])].st = "live"
          /\ \E text \in TextKinds, api_ok \in BOOLEAN, reply \in CycleReplies :
                LET res == get_vendor_from_gpt(text, api_ok, reply).result
                IN IF Truthy(res[1]) /\ Truthy(res[2])
                   THEN /\ cur' = [cur EXCEPT ![c] = res]
                        /\ pc' = [pc EXCEPT ![c] = IF NeedsFolder(vendors[c], res[1])
                                                   THEN "create" ELSE "place"]
                        /\ UNCHANGED <<todo, failed>>
                   ELSE SkipFile(c)
    /\ UNCHANGED <<driveVars, blobVars, known, current, vendors, created, moved, commits,
                   seen, skipped, started, parseVars>>

\* a failed creation that registers the vendor all the same
CreateFailedRegisters(c) ==
    /\ pc' = [pc EXCEPT ![c] = "place"]
    /\ vendors' = [vendors EXCEPT ![c] = (cur[c][1] :> FOLDER_ID) @@ vendors[c]]
    /\ UNCHANGED <<folders, created, todo, cur>>

\* create_vendor_folder lines 140-142 returned None: line 167 is false and the
\* code goes on to line 174
CreateFailed(c) ==
    /\ pc' = [pc EXCEPT ![c] = "place"]
    /\ UNCHANGED <<folders, vendors, created, todo, cur>>

\* process_new_files lines 166-171: create_vendor_folder (lines 128-142); with a
\* folder id, vendors[vendor] = folder_id, then open(VENDORS_PATH, 'w') raises
\* NameError (VENDORS_PATH is defined nowhere) and line 192 ends this file;
\* without one, the code goes on to line 174
CreateFolder(c) ==
    /\ pc[c] = "create"
    /\ \/ /\ Len(folders) < MaxFolders
          /\ LET folder_id == FolderId(Len(folders) + 1)
             IN /\ folders' = Append(folders, [id |-> folder_id, name |-> cur[c][1]])
                /\ vendors' = [vendors EXCEPT ![c] = (cur[c][1] :> folder_id) @@ vendors[c]]
                /\ created' = [created EXCEPT ![c] = created[c] \cup
                                  {[file |-> Head(todo[c]), vendor |-> cur[c][1],
                                    folder |-> folder_id]}]
          /\ NextFile(c)
       \/ CreateFailed(c)
    /\ UNCHANGED <<files, blobVars, known, current, moved, failed, commits, seen,
                   skipped, started, parseVars>>

\* process_new_files lines 174-187 with FileOrganizer.move_and_rename_file
Place(c) ==
    /\ pc[c] = "place"
    /\ LET f == Head(todo[c])
           new_name == create_new_filename(cur[c][1], cur[c][2])
           target == target_folder(vendors[c], cur[c][1])
       IN IF Truthy(new_name) /\ target # NoFolder /\ Truthy(target)
          THEN /\ moved' = [moved EXCEPT ![c] = moved[c] \cup
                               {[file |-> f, name |-> new_name, target |-> target,
                                 vendor |-> cur[c][1]]}]
               /\ \/ UNCHANGED files                   \* files().get or files().update raised
                  \/ /\ files[f].st = "live"
                     /\ FolderExists(target)
                     /\ \E kept \in (IF target \in files[f].parents THEN {{target}, {}}
                                     ELSE {{target}}) :
                           files' = [files EXCEPT ![f].name = new_name, ![f].parents = kept]
          ELSE UNCHANGED <<moved, files>>
    /\ NextFile(c)
    /\ UNCHANGED <<folders, blobVars, known, current, vendors, created, failed, commits,
                   seen, skipped, started, parseVars>>

\* main lines 246-249 (or 252-253): save_known_files (lines 51-60), then return
Commit(c) ==
    /\ pc[c] = "commit"
    /\ pc' = [pc EXCEPT ![c] = "done"]
    /\ commits' = [commits EXCEPT ![c] = commits[c] + 1]
    /\ \E saved \in BOOLEAN :
          knownBlob' = IF saved THEN [present |-> TRUE, data |-> current[c]] ELSE knownBlob
    /\ skipped' = skipped \cup {f \in new_files(current[c], known[c]) : InRoot(f)}
    /\ Return(c)
    /\ UNCHANGED <<driveVars, vendorsBlob, seen, started, parseVars>>

\* one invocation after the other
Next ==
    \/ \E f \in FileIds : Upload(f)
    \/ \E f \in FileIds : Remove(f)
    \/ Load(1)
    \/ List(1)
    \/ LoadVendors(1)
    \/ Extract(1)
    \/ CreateFolder(1)
    \/ Place(1)
    \/ Commit(1)

Spec == Init /\ [][Next]_vars

\* two invocations that may overlap, with one PDF in the watched folder
InitOverlap == files = OneInRoot /\ InitStores /\ InitLocal /\ ParseIdle

NextOverlap ==
    \/ \E c \in Workers : Load(c)
    \/ \E c \in Workers : List(c)
    \/ \E c \in Workers : LoadVendors(c)
    \/ \E c \in Workers : Extract(c)
    \/ \E c \in Workers : CreateFolder(c)
    \/ \E c \in Workers : Place(c)
    \/ \E c \in Workers : Commit(c)

SpecOverlap == InitOverlap /\ [][NextOverlap]_vars

\* the timer trigger invokes main
NextTimer ==
    \/ \E f \in FileIds : Upload(f)
    \/ \E f \in FileIds : Remove(f)
    \/ \E c \in Workers : main(c)

SpecTimer == Init /\ [][NextTimer]_vars

\* ----------------------------------------------------- properties of the cycle
Range(s) == {s[i] : i \in 1..Len(s)}
Processing(c) == pc[c] \in {"extract", "create", "place"}

\* C1: when a folder was created for the new vendor of a file, the cycle
\* registers the vendor and then moves that same file into the new folder.
C1_NewVendorFilePlaced ==
    \A c \in Workers : \A r \in created[c] :
        \E m \in moved[c] : m.file = r.file /\ m.target = r.folder

\* C2: a vendor registered during a cycle is in the persisted registry, bound
\* to its new folder, before the cycle goes on to the next file.
C2_NewVendorPersisted ==
    \A c \in Workers : \A r \in created[c] :
        /\ vendorsBlob.present
        /\ r.vendor \in DOMAIN vendorsBlob.data
        /\ vendorsBlob.data[r.vendor] = r.folder

\* C3: move_and_rename_file is only called with the folder id that the
\* cycle's registry binds to the extracted vendor; never for a vendor that is
\* not in the registry, never with an empty folder id.
C3_PlacedOnlyIntoRegisteredFolder ==
    \A c \in Workers : \A m \in moved[c] :
        /\ m.vendor \in DOMAIN vendors[c]
        /\ vendors[c][m.vendor] = m.target
        /\ m.target # NoFolder
        /\ m.target # Empty

C3_Witness == \E m \in moved[1] : m.file = "f1" /\ FolderExists(m.target)

\* C4: a file that a finished cycle skipped and that is still in the watched
\* folder is in the new-file delta of the next cycle.
C4_SkippedFileIsNewAgain ==
    \A c \in Workers :
        pc[c] \in {"vendors", "extract", "create", "place", "commit"} =>
            \A f \in seen[c] \cap DOMAIN current[c] : f \in new_files(current[c], known[c])

\* C4 as amended: such a file is handed to processing again exactly when the
\* ledger the next cycle loaded does not list it; a file the loaded ledger
\* lists is never processed in that cycle.
C4_SkippedFileNewIffNotInLedger ==
    \A c \in Workers : \A f \in seen[c] :
        /\ f \in DOMAIN known[c] => f \notin Range(todo[c])
        /\ (pc[c] = "vendors" /\ f \in DOMAIN current[c] /\ f \notin DOMAIN known[c])
               => f \in Range(todo[c])

C4_Witness ==
    \E f \in seen[1] :
        /\ pc[1] = "commit"
        /\ f \in DOMAIN current[1]
        /\ f \in DOMAIN known[1]
        /\ InRoot(f)

\* C5: every cycle the timer trigger starts, in which the store connection
\* and the listing do not fail, runs the ledger commit exactly once.
C5_TimerCycleCommitsOnce ==
    \A c \in Workers : pc[c] \in {"done", "raised"} => commits[c] = 1

\* C6: no step replaces a non-empty persisted vendor registry by an empty one.
C6_NeverEmptiesRegistry ==
    [][~(/\ vendorsBlob.present
         /\ vendorsBlob.data # Empty
         /\ vendorsBlob'.present
         /\ vendorsBlob'.data = Empty)]_vars

\* C7: two overlapping cycles that process the same file leave what one cycle
\* leaves: they do not both create a folder for the file's vendor.
C7_OverlapSameAsOne ==
    \A c \in Workers : \A d \in Workers \ {c} :
        \A r \in created[c] : \A q \in created[d] :
            ~(r.file = q.file /\ r.vendor = q.vendor)

\* C8: while a cycle processes files, a vendor bound in its registry, or in
\* the persisted registry, keeps its folder id, and a folder is created only
\* for a vendor that the cycle's registry does not hold.
C8_RegistrationInsertIfAbsent ==
    [][\A c \in Workers :
          Processing(c) =>
              /\ \A v \in DOMAIN vendors[c] :
                     pc'[c] # "done" => (v \in DOMAIN vendors'[c] /\ vendors'[c][v] = vendors[c][v])
              /\ vendorsBlob' = vendorsBlob
              /\ folders' # folders => (pc[c] = "create" /\ cur[c][1] \notin DOMAIN vendors[c])]_vars

C8_Witness ==
    \E r \in created[1] : \E m \in moved[1] :
        m.vendor = r.vendor /\ m.target = r.folder /\ m.file # r.file

\* C11: a failure while fetching a file, extracting its text or extracting its
\* metadata skips that file only: the loop goes on with exactly the remaining
\* files, the failed file is not taken up again in the cycle, and no folder,
\* registry entry or move is made for it.
C11_FailedFileSkippedAlone ==
    /\ [](\A c \in Workers : \A f \in failed[c] :
            /\ f \notin Range(todo[c])
            /\ \A r \in created[c] \cup moved[c] : r.file # f)
    /\ [][\A c \in Workers :
            (pc[c] = "extract" /\ failed'[c] # failed[c]) =>
                /\ failed'[c] = failed[c] \cup {Head(todo[c])}
                /\ todo'[c] = Tail(todo[c])
                /\ pc'[c] = IF Tail(todo[c]) = <<>> THEN "commit" ELSE "extract"
                /\ UNCHANGED <<files, folders, vendorsBlob, knownBlob>>
                /\ vendors'[c] = vendors[c]
                /\ created'[c] = created[c]
                /\ moved'[c] = moved[c]]_vars

C11_Witness == failed[1] # {} /\ pc[1] = "extract" /\ todo[1] # <<>>

\* C12: when the Drive service cannot be initialised or the listing fails, the
\* cycle ends with the ledger, the registry, the folders and the files as they
\* were when the cycle started, and without a commit.
C12_AbortMutatesNothing ==
    /\ [](\A c \in Workers : pc[c] = "aborted" => commits[c] = 0)
    /\ [][\A c \in Workers :
            (pc[c] = "list" /\ pc'[c] = "aborted") =>
                UNCHANGED <<knownBlob, vendorsBlob, folders, files>>]_vars
    /\ [][\A c \in Workers :
            (~InProgress(c) /\ pc'[c] = "list") =>
                UNCHANGED <<knownBlob, vendorsBlob, folders, files>>]_vars

C12_Witness == pc[1] = "aborted" /\ knownBlob.present /\ InRoot("f2")

\* C15: with P the ids of the loaded ledger and C the ids of the listing, the
\* batch handed to processing is exactly C \ P and the removed ids are P \ C;
\* folders are created and files moved for ids of C \ P only, and no step of
\* the cycle touches a file whose id is in P \ C.
C15_DeltaDrivesProcessing ==
    /\ [](\A c \in Workers :
            LET P == DOMAIN known[c]
                C == DOMAIN current[c]
            IN /\ removed_files(current[c], known[c]) = P \ C
               /\ pc[c] = "vendors" => Range(todo[c]) = C \ P /\ Len(todo[c]) = Cardinality(C \ P)
               /\ Processing(c) => Range(todo[c]) \subseteq C \ P
               /\ \A r \in created[c] \cup moved[c] : r.file \in C \ P /\ r.file \notin P \ C)
    /\ [][\A c \in Workers :
            (InProgress(c) /\ pc'[c] # pc[c] /\ pc[c] # "list") =>
                \A f \in removed_files(current[c], known[c]) : files'[f] = files[f]]_vars

C15_Witness ==
    /\ removed_files(current[1], known[1]) # {}
    /\ \E m \in moved[1] : m.file \in DOMAIN current[1] /\ files[m.file].name = m.name

\* C16: the new files of a cycle are processed in ascending creation-time
\* order: a file created before another one of the batch comes before it.
C16_AscendingCreationOrder ==
    \A c \in Workers :
        (pc[c] = "vendors" \/ Processing(c)) =>
            \A i, j \in 1..Len(todo[c]) :
                CreatedBefore(todo[c][i], todo[c][j]) => i < j

\* the folder id that comes first in the listing under this name
FirstSeen(listing, name) ==
    listing[CHOOSE i \in 1..Len(listing) :
                /\ listing[i].name = name
                /\ \A j \in 1..(i - 1) : listing[j].name # name].id

\* C17: a registry rebuilt from a folder listing that holds two folders of
\* the same vendor name binds the vendor to the folder id seen first.
C17_RebuildKeepsFirstSeen ==
    [][\A c \in Workers :
        (pc[c] = "vendors" /\ vendorsBlob' # vendorsBlob) =>
            \A i \in 1..Len(folders) :
                vendorsBlob'.data[folders[i].name] = FirstSeen(folders, folders[i].name)]_vars

\* C18: a failed folder creation registers nothing, in memory or in the
\* persisted registry, and creates no folder; the file is then left where it
\* is, without a move or a rename; and a file whose vendor the cycle's registry
\* does not hold always goes to a folder-creation attempt.
C18_FailedCreationRegistersNothing ==
    [][\A c \in Workers :
        /\ (pc[c] = "create" /\ pc'[c] = "place") =>
               /\ vendors'[c] = vendors[c]
               /\ cur[c][1] \notin DOMAIN vendors'[c]
               /\ UNCHANGED <<vendorsBlob, folders, files>>
               /\ created'[c] = created[c]
        /\ (pc[c] = "place" /\ pc'[c] # "place" /\ cur[c][1] \notin DOMAIN vendors[c]) =>
               /\ UNCHANGED <<files, vendorsBlob, folders>>
               /\ pc'[c] # "done" => moved'[c] = moved[c] /\ vendors'[c] = vendors[c]
               /\ todo'[c] = Tail(todo[c])
        /\ (pc[c] = "extract" /\ pc'[c] \in {"create", "place"}) =>
               (pc'[c] = "create" <=> cur'[c][1] \notin DOMAIN vendors[c])]_vars

C18_Witness ==
    /\ pc[1] = "place"
    /\ cur[1][1] \notin DOMAIN vendors[1]
    /\ Len(todo[1]) = 2

\* C19: in one cycle at most one folder is created per vendor name, and every
\* later file of the cycle with that vendor is handed to placement with the
\* folder created for the first one.
C19_OneFolderPerVendorPerCycle ==
    /\ [](\A c \in Workers : \A r \in created[c] :
            /\ \A r2 \in created[c] : r2.vendor = r.vendor => r2 = r
            /\ r.vendor \in DOMAIN vendors[c] /\ vendors[c][r.vendor] = r.folder
            /\ \A m \in moved[c] : m.vendor = r.vendor => m.target = r.folder)
    /\ [][\A c \in Workers : \A r \in created[c] :
            /\ (pc[c] = "extract" /\ pc'[c] \in {"create", "place"} /\ cur'[c][1] = r.vendor) =>
                   pc'[c] = "place"
            /\ (pc[c] = "place" /\ pc'[c] \in {"extract", "commit"} /\ cur[c][1] = r.vendor) =>
                   \E m \in moved'[c] : m.file = Head(todo[c]) /\ m.target = r.folder]_vars

C19_Witness ==
    /\ Len(folders) = 1
    /\ \E r \in created[1] : \E m \in moved[1] :
           m.vendor = r.vendor /\ m.file # r.file /\ files[m.file].parents = {r.folder}

\* ------------------------------------------------ replies given to the parser
Years == {2023, 2024}
Days == {1, 10} \cup (28..MaxDay)
NameForms == { [raw |-> <<"A">>, bare |-> <<"A">>],
               [raw |-> <<"N", " ", "V", "1">>, bare |-> <<"N", " ", "V", "1">>],
               [raw |-> <<QUOTE, "A", QUOTE>>, bare |-> <<"A">>],
               [raw |-> <<QUOTE, QUOTE>>, bare |-> <<>>] }
Shapes == {"MDY", "YMD", "NONE"}

Blanks(n) == [i \in 1..n |-> " "]
Field(n, pad) == IF pad THEN TwoDigits(n) ELSE Unpadded(n)

\* the date token of a reply: month, day, year in the order of the shape
DateToken(g) ==
    IF g.shape = "MDY"
    THEN Field(g.month, g.pad) \o <<g.sep1>> \o Field(g.day, g.pad) \o <<g.sep2>> \o FourDigits(g.year)
    ELSE IF g.shape = "YMD"
    THEN FourDigits(g.year) \o <<g.sep1>> \o Field(g.month, g.pad) \o <<g.sep2>> \o Field(g.day, g.pad)
    ELSE <<>>

ReplyText(g) == g.name.raw \o (IF g.shape = "NONE" THEN <<>> ELSE Blanks(g.gap) \o DateToken(g))

Givens == [name : NameForms, shape : Shapes, month : 0..MaxMonth, day : Days,
           year : Years, sep1 : {"-", "/"}, sep2 : {"-", "/"}, pad : BOOLEAN,
           gap : 1..MaxGap]

ValidCalendarDate(g) == g.month \in 1..12 /\ g.day \in 1..DaysInMonth(g.month, g.year)

InitParse ==
    /\ pGiven \in Givens
    /\ pReply = ReplyText(pGiven)
    /\ pResult = Pending
    /\ gpt = [text |-> "text", calls |-> 0, failed |-> FALSE]
    /\ files = NoFiles
    /\ InitStores
    /\ InitLocal

\* get_vendor_from_gpt line 116: return self._parse_openai_response(response)
ParseReply ==
    /\ pResult = Pending
    /\ pResult' = parse_openai_response(pReply)
    /\ UNCHANGED <<pReply, pGiven, gpt, cycleVars>>

NextParse == ParseReply
SpecParse == InitParse /\ [][NextParse]_vars

\* ------------------------------------------------------ get_vendor_from_gpt
\* the replies the model gives in answer to the prompt
GptGivens == {g \in Givens : g.gap = 1 /\ g.pad /\ g.sep1 = g.sep2}

InitGpt ==
    /\ pGiven \in GptGivens
    /\ pReply = ReplyText(pGiven)
    /\ pResult = Pending
    /\ gpt \in [text : TextKinds, calls : {0}, failed : {FALSE}]
    /\ files = NoFiles
    /\ InitStores
    /\ InitLocal

\* process_new_files lines 160-161: one invocation of get_vendor_from_gpt, the
\* completion call answering pReply or raising
GetVendor ==
    /\ pResult = Pending
    /\ \E api_ok \in BOOLEAN :
          LET out == get_vendor_from_gpt(gpt.text, api_ok, pReply)
          IN /\ pResult' = out.result
             /\ gpt' = [text |-> gpt.text, calls |-> gpt.calls + out.calls,
                        failed |-> out.failed]
    /\ UNCHANGED <<pReply, pGiven, cycleVars>>

NextGpt == GetVendor
SpecGpt == InitGpt /\ [][NextGpt]_vars

\* C13: with no text or empty text get_vendor_from_gpt makes no completion
\* call and returns (None, None); with text it makes exactly one call, and
\* returns (None, None) when that call raised.
C13_OneCallOrNone ==
    pResult # Pending =>
        /\ gpt.text \in {"none", "empty"} =>
                gpt.calls = 0 /\ pResult = <<None, None>>
        /\ gpt.text = "text" => gpt.calls = 1
        /\ gpt.failed => pResult = <<None, None>>

C13_Witness ==
    /\ pResult = <<None, None>>
    /\ gpt = [text |-> "empty", calls |-> 0, failed |-> FALSE]
    /\ pGiven.shape = "MDY"
    /\ ValidCalendarDate(pGiven)

Normalized(g) == TwoDigits(g.month) \o <<"-">> \o TwoDigits(g.day) \o <<"-">> \o FourDigits(g.year)

\* C9: every reply "<name> <date>" whose date token is MM-DD-YYYY, MM/DD/YYYY,
\* YYYY-MM-DD or YYYY/MM/DD and a valid calendar date parses to
\* (name, MM-DD-YYYY) with zero-padded month and day.
C9_DatedReplyParses ==
    (/\ pResult # Pending
     /\ pGiven.shape \in {"MDY", "YMD"}
     /\ pGiven.sep1 = pGiven.sep2
     /\ pGiven.name.bare # <<>>
     /\ ValidCalendarDate(pGiven))
    => pResult = <<pGiven.name.bare, Normalized(pGiven)>>

\* the month-first half of C9
C9_MonthFirstParses ==
    (/\ pResult # Pending
     /\ pGiven.shape = "MDY"
     /\ pGiven.sep1 = pGiven.sep2
     /\ ValidCalendarDate(pGiven))
    => pResult = <<pGiven.name.bare, Normalized(pGiven)>>

\* C10: a reply without a trailing date token, or with a date token that is
\* no calendar date, parses to (None, None); and the parser never returns
\* one of vendor and date without the other.
C10_NoDateNoResult ==
    pResult # Pending =>
        /\ (pGiven.shape = "NONE" \/ ~ValidCalendarDate(pGiven)) => pResult = <<None, None>>
        /\ (pResult[1] = None) <=> (pResult[2] = None)

C10_Witness ==
    /\ pResult = <<None, None>>
    /\ pGiven.shape = "MDY"
    /\ pGiven.month = 13
    /\ pGiven.sep1 = pGiven.sep2
====
